---- MODULE Spec2Model ----
(***************************************************************************)
(* Minkowski-sum collision engine of src/script.js: Vector, rayCastEdge,   *)
(* rayCastCircle, the Shape base class (intersects, intersect,             *)
(* solveCollisions, setLinearVelocity) and the three shapes Circle, AABB   *)
(* and RoundRect (first file of src/script.js, lines 1-634).               *)
(*                                                                         *)
(* Numbers.  A JavaScript number is modelled as an exact rational          *)
(* [n |-> numerator, d |-> denominator] in lowest terms with d > 0, plus   *)
(* the three IEEE values the code can produce: +Infinity = n/d = 1/0,      *)
(* -Infinity = -1/0 and NaN = 0/0.  Arithmetic on rationals is exact (no   *)
(* rounding); arithmetic on the IEEE values follows IEEE 754 (Inf - Inf,   *)
(* 0 * Inf and 0 / 0 are NaN, every comparison with NaN is false).  The    *)
(* sign of zero is not modelled: the only divisor the code can make zero   *)
(* is a length, which is +0.                                               *)
(*                                                                         *)
(* Math.sqrt is exact on the squares of rationals.  A call whose argument  *)
(* is a positive rational that is not such a square has an irrational      *)
(* result that the model does not represent: the operations are applied    *)
(* only in states where every square root they take is exact (the ...Exact *)
(* predicates below, one per function that calls Math.sqrt to produce a    *)
(* value).  Comparisons of a length with a number are decided exactly, by  *)
(* comparing squares, so contains() is total.                              *)
(***************************************************************************)
EXTENDS Integers, FiniteSets, Sequences, TLC

(***************************************************************************)
(* JavaScript numbers                                                      *)
(***************************************************************************)
RECURSIVE GCD(_, _)
GCD(a, b) == IF b = 0 THEN a ELSE GCD(b, a % b)

IAbs(i) == IF i < 0 THEN -i ELSE i

ISign(i) == IF i < 0 THEN -1 ELSE IF i > 0 THEN 1 ELSE 0

\* n/d with d # 0, in lowest terms with a positive denominator
Norm(n, d) ==
    IF d = 1 THEN [n |-> n, d |-> 1]
    ELSE LET g == GCD(IAbs(n), IAbs(d))
         IN  IF d < 0 THEN [n |-> (-n) \div g, d |-> (-d) \div g]
                      ELSE [n |-> n \div g, d |-> d \div g]

Int2Num(i) == [n |-> i, d |-> 1]

Frac(n, d) == Norm(n, d)

NaN == [n |-> 0, d |-> 0]

POSITIVE_INFINITY == [n |-> 1, d |-> 0]

NEGATIVE_INFINITY == [n |-> -1, d |-> 0]

Zero == Int2Num(0)

One == Int2Num(1)

IsNaN(x) == x.d = 0 /\ x.n = 0

IsInf(x) == x.d = 0 /\ x.n # 0

IsFinite(x) == x.d # 0

\* unary minus
Neg(x) == [n |-> -x.n, d |-> x.d]

\* x + y
Add(x, y) ==
    IF x.d # 0 /\ y.d # 0 THEN Norm(x.n * y.d + y.n * x.d, x.d * y.d)
    ELSE IF IsNaN(x) \/ IsNaN(y) THEN NaN
    ELSE IF IsInf(x) THEN (IF IsInf(y) /\ y.n # x.n THEN NaN ELSE x)
    ELSE y

\* x - y
Sub(x, y) == Add(x, Neg(y))

\* x * y
Mul(x, y) ==
    IF x.d # 0 /\ y.d # 0 THEN Norm(x.n * y.n, x.d * y.d)
    ELSE IF IsNaN(x) \/ IsNaN(y) THEN NaN
    ELSE IF x.n = 0 \/ y.n = 0 THEN NaN
    ELSE [n |-> ISign(x.n) * ISign(y.n), d |-> 0]

\* x / y
Div(x, y) ==
    IF x.d # 0 /\ y.d # 0 /\ y.n # 0 THEN Norm(x.n * y.d, x.d * y.n)
    ELSE IF IsNaN(x) \/ IsNaN(y) THEN NaN
    ELSE IF IsInf(y) THEN (IF IsInf(x) THEN NaN ELSE Zero)
    ELSE IF IsInf(x) THEN [n |-> x.n * (IF y.n < 0 THEN -1 ELSE 1), d |-> 0]
    ELSE IF x.n = 0 THEN NaN
    ELSE [n |-> ISign(x.n), d |-> 0]

\* x < y
Lt(x, y) ==
    IF x.d # 0 /\ y.d # 0 THEN x.n * y.d < y.n * x.d
    ELSE IF IsNaN(x) \/ IsNaN(y) THEN FALSE
    ELSE IF IsInf(x) THEN x.n < 0 /\ ~(IsInf(y) /\ y.n < 0)
    ELSE y.n > 0

\* x > y
Gt(x, y) == Lt(y, x)

\* x == y
Eq(x, y) == ~IsNaN(x) /\ ~IsNaN(y) /\ x = y

\* x <= y
Le(x, y) == Lt(x, y) \/ Eq(x, y)

\* x >= y
Ge(x, y) == Le(y, x)

\* Math.abs
Math_abs(x) == [n |-> IAbs(x.n), d |-> x.d]

\* Math.min
Math_min(x, y) == IF IsNaN(x) \/ IsNaN(y) THEN NaN ELSE IF Lt(y, x) THEN y ELSE x

\* Math.max
Math_max(x, y) == IF IsNaN(x) \/ IsNaN(y) THEN NaN ELSE IF Lt(x, y) THEN y ELSE x

\* largest k with k * k <= i, by Newton's iteration from above
RECURSIVE ISqrtFrom(_, _)
ISqrtFrom(i, k) == IF k * k <= i THEN k ELSE ISqrtFrom(i, (k + i \div k) \div 2)

ISqrt(i) == IF i < 2 THEN i ELSE ISqrtFrom(i, IF i > 46340 THEN 46340 ELSE i)

IsIntSquare(i) == i >= 0 /\ ISqrt(i) * ISqrt(i) = i

\* Math.sqrt(x) is a number of the model
SqrtExact(x) ==
    IF x.d = 0 THEN TRUE
    ELSE IF x.n <= 0 THEN TRUE
    ELSE IsIntSquare(x.n) /\ IsIntSquare(x.d)

\* Math.sqrt, where SqrtExact
Math_sqrt(x) ==
    IF IsNaN(x) THEN NaN
    ELSE IF IsInf(x) THEN (IF x.n > 0 THEN x ELSE NaN)
    ELSE IF x.n < 0 THEN NaN
    ELSE [n |-> ISqrt(x.n), d |-> ISqrt(x.d)]

(***************************************************************************)
(* class Vector                                                            *)
(***************************************************************************)
Vector(x, y) == [x |-> x, y |-> y]

Vec(i, j) == Vector(Int2Num(i), Int2Num(j))

ZERO == Vec(0, 0)

Vector_add(a, b) == Vector(Add(a.x, b.x), Add(a.y, b.y))

Vector_sub(a, b) == Vector(Sub(a.x, b.x), Sub(a.y, b.y))

Vector_mul(v, scalar) == Vector(Mul(v.x, scalar), Mul(v.y, scalar))

Vector_dot(a, b) == Add(Mul(a.x, b.x), Mul(a.y, b.y))

Vector_cross(a, b) == Sub(Mul(a.x, b.y), Mul(a.y, b.x))

Vector_max(a, b) == Vector(Math_max(a.x, b.x), Math_max(a.y, b.y))

Vector_abs(v) == Vector(Math_abs(v.x), Math_abs(v.y))

Vector_tangent(v) == Vector(Neg(v.y), v.x)

\* get length
Vector_length(v) == Math_sqrt(Vector_dot(v, v))

LengthExact(v) == SqrtExact(Vector_dot(v, v))

\* v.length < x, decided on the squares
LengthLt(v, x) ==
    LET l2 == Vector_dot(v, v)
    IN  IF IsNaN(l2) \/ IsNaN(x) THEN FALSE
        ELSE IF IsInf(l2) THEN FALSE
        ELSE IF IsInf(x) THEN x.n > 0
        ELSE Gt(x, Zero) /\ Lt(l2, Mul(x, x))

\* v.length <= x, decided on the squares
LengthLe(v, x) ==
    LET l2 == Vector_dot(v, v)
    IN  IF IsNaN(l2) \/ IsNaN(x) THEN FALSE
        ELSE IF IsInf(x) THEN x.n > 0
        ELSE IF IsInf(l2) THEN FALSE
        ELSE Ge(x, Zero) /\ Le(l2, Mul(x, x))

(***************************************************************************)
(* The length unit.  The code holds one absolute constant, Number.EPSILON  *)
(* = 2^-52 (rayCastCircle, line 119), compared with the squared length of  *)
(* a direction.  The numbers of a state are measured in the state's unit:  *)
(*   "macro": the unit is 1.  Every positive rational of the model is far  *)
(*            above 2^-52, so a <= EPSILON holds exactly when a <= 0.      *)
(*   "micro": the unit is 2^-26, so that EPSILON = (2^-26)^2 is 1 squared  *)
(*            unit and a <= EPSILON holds exactly when a <= 1.             *)
(* Nothing else in the code depends on the unit.                           *)
(***************************************************************************)
VARIABLES unit, a, b, ret, pre, steps

vars == <<unit, a, b, ret, pre, steps>>

Units == {"macro", "micro"}

\* a <= Number.EPSILON
LeEPSILON(x) == IF unit = "micro" THEN Le(x, One) ELSE Le(x, Zero)

(***************************************************************************)
(* rayCastEdge, rayCastCircle                                              *)
(***************************************************************************)
\* rayCastEdgeAt, were the crossing not required to lie on segment B
rayCastEdgeAt_anyT2(t1, t2) ==
    IF Gt(Zero, t1) \/ Gt(t1, One) THEN POSITIVE_INFINITY ELSE t1

\* the two parameters t1 (on A) and t2 (on B) of the crossing, both in [0, 1]
rayCastEdgeAt(t1, t2) ==
    IF Gt(Zero, t1) \/ Gt(t1, One) THEN POSITIVE_INFINITY
    ELSE IF Gt(Zero, t2) \/ Gt(t2, One) THEN POSITIVE_INFINITY
    ELSE t1

\* r = endA - originA, s = endB - originB, dir = originB - originA, det = r x s
rayCastEdgeDet(r, s, dir, det) ==
    IF Eq(det, Zero) THEN POSITIVE_INFINITY
    ELSE rayCastEdgeAt(Div(Vector_cross(dir, s), det), Div(Vector_cross(dir, r), det))

rayCastEdge(originA, endA, originB, endB) ==
    LET r == Vector_sub(endA, originA)
        s == Vector_sub(endB, originB)
    IN  rayCastEdgeDet(r, s, Vector_sub(originB, originA), Vector_cross(r, s))

\* a = direction . direction
rayCastCircleA(direction) == Vector_dot(direction, direction)

\* b = 2 * direction . centerToOrigin
rayCastCircleB(origin, direction, center) ==
    Mul(Int2Num(2), Vector_dot(direction, Vector_sub(origin, center)))

\* c = centerToOrigin . centerToOrigin - radius * radius
rayCastCircleC(origin, center, radius) ==
    Sub(Vector_dot(Vector_sub(origin, center), Vector_sub(origin, center)),
        Mul(radius, radius))

\* b * b - 4 * a * c
Discriminant(a0, b0, c0) == Sub(Mul(b0, b0), Mul(Mul(Int2Num(4), a0), c0))

\* the discriminant of rayCastCircle
rayCastCircleDet(origin, direction, center, radius) ==
    Discriminant(rayCastCircleA(direction),
                 rayCastCircleB(origin, direction, center),
                 rayCastCircleC(origin, center, radius))

\* no irrational square root of det is taken
rayCastCircleDetExact(a0, det) ==
    IF LeEPSILON(a0) THEN TRUE
    ELSE IF Lt(det, Zero) THEN TRUE
    ELSE IF Eq(det, Zero) THEN TRUE
    ELSE SqrtExact(det)

\* rayCastCircle takes no irrational square root
rayCastCircleExact(origin, direction, center, radius) ==
    rayCastCircleDetExact(rayCastCircleA(direction),
                          rayCastCircleDet(origin, direction, center, radius))

\* det == 0: the one root t
rayCastCircleRoot(t) ==
    IF Ge(t, Zero) /\ Le(t, One) THEN t ELSE POSITIVE_INFINITY

\* det > 0: the two roots t1, t2
rayCastCircleRoots(t1, t2) ==
    IF Ge(t1, Zero) /\ Le(t1, One)
    THEN (IF Ge(t2, Zero) /\ Le(t2, One) THEN Math_min(t1, t2) ELSE t1)
    ELSE IF Ge(t2, Zero) /\ Le(t2, One) THEN t2
    ELSE POSITIVE_INFINITY

rayCastCircleSolve(a0, b0, det) ==
    IF LeEPSILON(a0) \/ Lt(det, Zero) THEN POSITIVE_INFINITY
    ELSE IF Eq(det, Zero)
    THEN rayCastCircleRoot(Div(Neg(b0), Mul(Int2Num(2), a0)))
    ELSE rayCastCircleRoots(Div(Add(Neg(b0), Math_sqrt(det)), Mul(Int2Num(2), a0)),
                            Div(Sub(Neg(b0), Math_sqrt(det)), Mul(Int2Num(2), a0)))

rayCastCircle(origin, direction, center, radius) ==
    rayCastCircleSolve(rayCastCircleA(direction),
                       rayCastCircleB(origin, direction, center),
                       rayCastCircleDet(origin, direction, center, radius))

(***************************************************************************)
(* Shapes.  A shape is a record of its class name (kind) and fields.       *)
(***************************************************************************)
\* class Shape: constructor
Shape(center) == [center |-> center, velocity |-> ZERO]

Circle(center, radius) ==
    [kind |-> "Circle", center |-> center, velocity |-> ZERO, radius |-> radius]

RoundRect(center, hw, hh, radius) ==
    [kind |-> "RoundRect", center |-> center, velocity |-> ZERO,
     hw |-> hw, hh |-> hh, radius |-> radius]

AABB(center, hw, hh) ==
    [kind |-> "AABB", center |-> center, velocity |-> ZERO, hw |-> hw, hh |-> hh]

\* get left, top, right, bottom (RoundRect and AABB)
left(s) == Sub(s.center.x, s.hw)

top(s) == Sub(s.center.y, s.hh)

right(s) == Add(s.center.x, s.hw)

bottom(s) == Add(s.center.y, s.hh)

leftTop(s) == Vector(left(s), top(s))

leftBottom(s) == Vector(left(s), bottom(s))

rightTop(s) == Vector(right(s), top(s))

rightBottom(s) == Vector(right(s), bottom(s))

\* a call returns a value or throws one
Return(v) == [tag |-> "return", value |-> v]

Throw(v) == [tag |-> "throw", value |-> v]

\* NotImplemented, were the two classes left out of the message
NotImplemented_unnamed(this, other) == Throw(<<"sum is not implemented">>)

\* `sum is not implemented for ${this.constructor.name} and ${other.constructor.name}`
NotImplemented(this, other) ==
    Throw(<<"sum is not implemented for ", this.kind, " and ", other.kind>>)

\* if (t < minT) { minT = t }
MinT(minT, t) == IF Lt(t, minT) THEN t ELSE minT

(***************************************************************************)
(* class Circle                                                            *)
(***************************************************************************)
Circle_contains(this, p) == LengthLt(Vector_sub(p, this.center), this.radius)

Circle_closestPointExact(this, p) == LengthExact(Vector_sub(p, this.center))

Circle_closestPoint(this, p) ==
    LET v == Vector_sub(p, this.center)
    IN  Vector_add(this.center, Vector_mul(v, Div(this.radius, Vector_length(v))))

Circle_rayCastExact(this, origin, direction) ==
    rayCastCircleExact(origin, direction, this.center, this.radius)

Circle_rayCast(this, origin, direction) ==
    rayCastCircle(origin, direction, this.center, this.radius)

\* Circle_sum, were the corner radius of circle + rounded rectangle the circle's own
Circle_sum_ownRadius(this, other) ==
    IF other.kind = "Circle"
    THEN Return(Circle(Vector_sub(this.center, other.center),
                       Add(this.radius, other.radius)))
    ELSE IF other.kind = "AABB"
    THEN Return(RoundRect(Vector_sub(this.center, other.center),
                          Add(this.radius, other.hw),
                          Add(this.radius, other.hh),
                          this.radius))
    ELSE Return(RoundRect(Vector_sub(this.center, other.center),
                          Add(this.radius, other.hw),
                          Add(this.radius, other.hh),
                          this.radius))

Circle_sum(this, other) ==
    IF other.kind = "Circle"
    THEN Return(Circle(Vector_sub(this.center, other.center),
                       Add(this.radius, other.radius)))
    ELSE IF other.kind = "AABB"
    THEN Return(RoundRect(Vector_sub(this.center, other.center),
                          Add(this.radius, other.hw),
                          Add(this.radius, other.hh),
                          this.radius))
    ELSE IF other.kind = "RoundRect"
    THEN Return(RoundRect(Vector_sub(this.center, other.center),
                          Add(this.radius, other.hw),
                          Add(this.radius, other.hh),
                          Add(this.radius, other.radius)))
    ELSE NotImplemented(this, other)

(***************************************************************************)
(* class RoundRect                                                         *)
(***************************************************************************)
\* RoundRect_contains, were the core rectangle tested without its rounded border
RoundRect_contains_core(this, p0) ==
    /\ Le(Math_abs(Sub(p0.x, this.center.x)), Sub(this.hw, this.radius))
    /\ Le(Math_abs(Sub(p0.y, this.center.y)), Sub(this.hh, this.radius))

RoundRect_contains(this, p0) ==
    LET p == Vector_sub(p0, this.center)
        q == Vector_add(Vector_abs(p),
                        Vector(Add(Neg(this.hw), this.radius),
                               Add(Neg(this.hh), this.radius)))
        m == Math_min(Math_max(q.x, q.y), Zero)
    IN  \* t = m + Vector.max(q, ZERO).length - radius;  t <= 0
        LengthLe(Vector_max(q, ZERO), Sub(this.radius, m))

\* the corner branch of RoundRect.closestPoint
RoundRect_inCorner(this, p) ==
    LET q == Vector_abs(Vector_sub(p, this.center))
        r == Vector(Sub(this.hw, this.radius), Sub(this.hh, this.radius))
    IN  Gt(q.x, r.x) /\ Gt(q.y, r.y)

RoundRect_closestPointExact(this, p) ==
    LET q == Vector_abs(Vector_sub(p, this.center))
        r == Vector(Sub(this.hw, this.radius), Sub(this.hh, this.radius))
    IN  IF RoundRect_inCorner(this, p) THEN LengthExact(Vector_sub(q, r)) ELSE TRUE

RoundRect_closestPoint(this, p) ==
    LET v == Vector_sub(p, this.center)
        q == Vector_abs(v)
        r == Vector(Sub(this.hw, this.radius), Sub(this.hh, this.radius))
        w0 == Vector_sub(q, r)
        w == Vector_add(r, Vector_mul(w0, Div(this.radius, Vector_length(w0))))
        first == Le(q.x, r.x)
        minDist == IF first THEN Math_abs(Sub(q.x, this.hh)) ELSE POSITIVE_INFINITY
        c1 == IF first
              THEN Vector(p.x, IF Gt(v.y, Zero) THEN bottom(this) ELSE top(this))
              ELSE p
    IN  IF Gt(q.x, r.x) /\ Gt(q.y, r.y)
        THEN Vector(Add(this.center.x, IF Gt(v.x, Zero) THEN w.x ELSE Neg(w.x)),
                    Add(this.center.y, IF Gt(v.y, Zero) THEN w.y ELSE Neg(w.y)))
        ELSE IF Lt(q.y, r.y) /\ Lt(Math_abs(Sub(q.y, this.hw)), minDist)
        THEN Vector(IF Gt(v.x, Zero) THEN right(this) ELSE left(this), p.y)
        ELSE c1

RoundRect_rayCastExact(this, origin, direction) ==
    /\ rayCastCircleExact(origin, direction,
           Vector(Add(left(this), this.radius), Add(top(this), this.radius)),
           this.radius)
    /\ rayCastCircleExact(origin, direction,
           Vector(Sub(right(this), this.radius), Add(top(this), this.radius)),
           this.radius)
    /\ rayCastCircleExact(origin, direction,
           Vector(Sub(right(this), this.radius), Sub(bottom(this), this.radius)),
           this.radius)
    /\ rayCastCircleExact(origin, direction,
           Vector(Add(left(this), this.radius), Sub(bottom(this), this.radius)),
           this.radius)

RoundRect_rayCastEdges(this, origin, end) ==
    MinT(MinT(MinT(
        rayCastEdge(origin, end,
            Vector(left(this), Add(top(this), this.radius)),
            Vector(left(this), Sub(bottom(this), this.radius))),
        rayCastEdge(origin, end,
            Vector(Add(left(this), this.radius), bottom(this)),
            Vector(Sub(right(this), this.radius), bottom(this)))),
        rayCastEdge(origin, end,
            Vector(right(this), Add(top(this), this.radius)),
            Vector(right(this), Sub(bottom(this), this.radius)))),
        rayCastEdge(origin, end,
            Vector(Add(left(this), this.radius), top(this)),
            Vector(Sub(right(this), this.radius), top(this))))

RoundRect_rayCast(this, origin, direction) ==
    MinT(MinT(MinT(MinT(
        RoundRect_rayCastEdges(this, origin, Vector_add(origin, direction)),
        rayCastCircle(origin, direction,
            Vector(Add(left(this), this.radius), Add(top(this), this.radius)),
            this.radius)),
        rayCastCircle(origin, direction,
            Vector(Sub(right(this), this.radius), Add(top(this), this.radius)),
            this.radius)),
        rayCastCircle(origin, direction,
            Vector(Sub(right(this), this.radius), Sub(bottom(this), this.radius)),
            this.radius)),
        rayCastCircle(origin, direction,
            Vector(Add(left(this), this.radius), Sub(bottom(this), this.radius)),
            this.radius))

RoundRect_sum(this, other) ==
    IF other.kind = "AABB"
    THEN Return(RoundRect(Vector_sub(this.center, other.center),
                          Add(this.hw, other.hw),
                          Add(this.hh, other.hh),
                          this.radius))
    ELSE IF other.kind = "Circle"
    THEN Return(RoundRect(Vector_sub(this.center, other.center),
                          Add(this.hw, other.radius),
                          Add(this.hh, other.radius),
                          Add(this.radius, other.radius)))
    ELSE NotImplemented(this, other)

(***************************************************************************)
(* class AABB                                                              *)
(***************************************************************************)
\* AABB_contains, were the sides of the box left out (< for <=)
AABB_contains_strict(this, p) ==
    /\ Lt(left(this), p.x)
    /\ Gt(right(this), p.x)
    /\ Lt(top(this), p.y)
    /\ Gt(bottom(this), p.y)

AABB_contains(this, p) ==
    /\ Le(left(this), p.x)
    /\ Ge(right(this), p.x)
    /\ Le(top(this), p.y)
    /\ Ge(bottom(this), p.y)

\* AABB_closestPoint, were a later side to win an exact tie (<= for <)
AABB_closestPoint_lastWins(this, p) ==
    LET d0 == Math_abs(Sub(p.x, left(this)))
        c0 == Vector(left(this), p.y)
        dR == Math_abs(Sub(right(this), p.x))
        hitR == Le(dR, d0)
        d1 == IF hitR THEN dR ELSE d0
        c1 == IF hitR THEN Vector(right(this), c0.y) ELSE c0
        dB == Math_abs(Sub(bottom(this), p.y))
        hitB == Le(dB, d1)
        d2 == IF hitB THEN dB ELSE d1
        c2 == IF hitB THEN Vector(p.x, bottom(this)) ELSE c1
        dT == Math_abs(Sub(top(this), p.y))
    IN  IF Le(dT, d2) THEN Vector(p.x, top(this)) ELSE c2

AABB_closestPoint(this, p) ==
    LET d0 == Math_abs(Sub(p.x, left(this)))
        c0 == Vector(left(this), p.y)
        dR == Math_abs(Sub(right(this), p.x))
        hitR == Lt(dR, d0)
        d1 == IF hitR THEN dR ELSE d0
        c1 == IF hitR THEN Vector(right(this), c0.y) ELSE c0
        dB == Math_abs(Sub(bottom(this), p.y))
        hitB == Lt(dB, d1)
        d2 == IF hitB THEN dB ELSE d1
        c2 == IF hitB THEN Vector(p.x, bottom(this)) ELSE c1
        dT == Math_abs(Sub(top(this), p.y))
    IN  IF Lt(dT, d2) THEN Vector(p.x, top(this)) ELSE c2

AABB_rayCastEdges(this, origin, end) ==
    MinT(MinT(MinT(
        rayCastEdge(origin, end, leftTop(this), leftBottom(this)),
        rayCastEdge(origin, end, leftBottom(this), rightBottom(this))),
        rayCastEdge(origin, end, rightBottom(this), rightTop(this))),
        rayCastEdge(origin, end, rightTop(this), leftTop(this)))

AABB_rayCast(this, origin, direction) ==
    AABB_rayCastEdges(this, origin, Vector_add(origin, direction))

AABB_sum(this, other) ==
    IF other.kind = "AABB"
    THEN Return(AABB(Vector_sub(this.center, other.center),
                     Add(this.hw, other.hw),
                     Add(this.hh, other.hh)))
    ELSE IF other.kind = "Circle"
    THEN Return(RoundRect(Vector_sub(this.center, other.center),
                          Add(other.radius, this.hw),
                          Add(other.radius, this.hh),
                          other.radius))
    ELSE IF other.kind = "RoundRect"
    THEN Return(RoundRect(Vector_sub(this.center, other.center),
                          Add(this.hw, other.hw),
                          Add(this.hh, other.hh),
                          other.radius))
    ELSE NotImplemented(this, other)

(***************************************************************************)
(* Method dispatch on the class of the receiver                            *)
(***************************************************************************)
contains(this, p) ==
    IF this.kind = "Circle" THEN Circle_contains(this, p)
    ELSE IF this.kind = "RoundRect" THEN RoundRect_contains(this, p)
    ELSE AABB_contains(this, p)

closestPointExact(this, p) ==
    IF this.kind = "Circle" THEN Circle_closestPointExact(this, p)
    ELSE IF this.kind = "RoundRect" THEN RoundRect_closestPointExact(this, p)
    ELSE TRUE

closestPoint(this, p) ==
    IF this.kind = "Circle" THEN Circle_closestPoint(this, p)
    ELSE IF this.kind = "RoundRect" THEN RoundRect_closestPoint(this, p)
    ELSE AABB_closestPoint(this, p)

rayCastExact(this, origin, direction) ==
    IF this.kind = "Circle" THEN Circle_rayCastExact(this, origin, direction)
    ELSE IF this.kind = "RoundRect" THEN RoundRect_rayCastExact(this, origin, direction)
    ELSE TRUE

rayCast(this, origin, direction) ==
    IF this.kind = "Circle" THEN Circle_rayCast(this, origin, direction)
    ELSE IF this.kind = "RoundRect" THEN RoundRect_rayCast(this, origin, direction)
    ELSE AABB_rayCast(this, origin, direction)

sum(this, other) ==
    IF this.kind = "Circle" THEN Circle_sum(this, other)
    ELSE IF this.kind = "RoundRect" THEN RoundRect_sum(this, other)
    ELSE AABB_sum(this, other)

(***************************************************************************)
(* class Shape: the collision queries and the solver                       *)
(***************************************************************************)
\* the value of `null`
null == [null |-> TRUE]

\* the value of a call that returns nothing
undefined == [undefined |-> TRUE]

\* intersects, were it to test the other shape's center against this shape
intersects_centers(this, other) ==
    IF sum(this, other).tag = "throw" THEN sum(this, other)
    ELSE Return(contains(this, other.center))

intersects(this, other) ==
    LET s == sum(this, other)
    IN  IF s.tag = "throw" THEN s ELSE Return(contains(s.value, ZERO))

intersectExact(this, other) ==
    LET s == sum(this, other)
    IN  IF s.tag = "throw" THEN TRUE
        ELSE IF contains(s.value, ZERO) THEN closestPointExact(s.value, ZERO)
        ELSE TRUE

\* intersect, were the containment test left out
intersect_always(this, other) ==
    IF sum(this, other).tag = "throw" THEN sum(this, other)
    ELSE Return(closestPoint(sum(this, other).value, ZERO))

intersect(this, other) ==
    LET s == sum(this, other)
    IN  IF s.tag = "throw" THEN s
        ELSE IF contains(s.value, ZERO) THEN Return(closestPoint(s.value, ZERO))
        ELSE Return(null)

\* update(dt); solveCollisions inlines it with dt * h
update(this, dt) ==
    [this EXCEPT !.center = Vector_add(this.center, Vector_mul(this.velocity, dt))]

\* the hit time h of solveCollisions' ray cast
hitTime(this, other) ==
    rayCast(sum(other, this).value, ZERO, Vector_sub(this.velocity, other.velocity))

solveCollisionsExact(this, other) ==
    LET s == sum(other, this)
    IN  IF s.tag = "throw" THEN TRUE
        ELSE IF contains(s.value, ZERO) THEN closestPointExact(s.value, ZERO)
        ELSE rayCastExact(s.value, ZERO, Vector_sub(this.velocity, other.velocity))

\* advance, were the hit time ignored
advance_free(this, other, dt, h) == <<update(this, dt), update(other, dt)>>

\* the free motion of both shapes for dt, cut at the hit time h when it is finite
advance(this, other, dt, h) ==
    IF Lt(h, POSITIVE_INFINITY)
    THEN <<update(this, Mul(dt, h)), update(other, Mul(dt, h))>>
    ELSE <<update(this, dt), update(other, dt)>>

\* solveCollisions, were overlapping shapes moved by their velocities as well
solveCollisions_advancing(this, other, dt) ==
    IF sum(other, this).tag = "throw" THEN sum(other, this)
    ELSE IF contains(sum(other, this).value, ZERO)
    THEN Return(<<update([this EXCEPT !.center =
                     Vector_add(this.center,
                                closestPoint(sum(other, this).value, ZERO))], dt),
                  update(other, dt)>>)
    ELSE Return(<<update(this, dt), update(other, dt)>>)

\* solveCollisions(other, dt): the pair <<this, other>> after the call, or the throw
solveCollisions(this, other, dt) ==
    LET s == sum(other, this)
    IN  IF s.tag = "throw" THEN s
        ELSE IF contains(s.value, ZERO)
        THEN Return(<<[this EXCEPT !.center =
                          Vector_add(this.center, closestPoint(s.value, ZERO))],
                      other>>)
        ELSE Return(advance(this, other, dt, hitTime(this, other)))

setLinearVelocity(this, velocity) == [this EXCEPT !.velocity = velocity]

(***************************************************************************)
(* The scene: two shapes a and b (lines 577-578).  The callers are the     *)
(* frame callback, a.solveCollisions(b, dt) (animate, line 618), and the   *)
(* input handlers, which set a velocity (lines 588, 598) and ask           *)
(* a.intersect(b) (line 593).                                              *)
(*                                                                         *)
(* ret is what the last call returned or threw, and pre the two shapes     *)
(* and the arguments dt and p as they were when the last query or frame    *)
(* was called (a new shape and setLinearVelocity leave the scene as pre).  *)
(***************************************************************************)
MaxCoord == 3

MaxSteps == 2

Coords == (-MaxCoord)..MaxCoord

Points == { Vec(i, j) : i \in Coords, j \in Coords }

\* the velocities given to a and to b
VelocitiesA == { Vec(0, 0), Vec(-1, 0), Vec(0, 2), Vec(-2, -2) }

VelocitiesB == { Vec(0, 0), Vec(1, 0) }

\* the frame times: 1/2 and 1 (animate passes 0.33)
Dts == { Frac(1, 2), One }

\* one shape of each class
ShapesAt(c) ==
    { Circle(c, One),
      AABB(c, One, One),
      RoundRect(c, Int2Num(2), One, One) }

Called(op, r) == [op |-> op, tag |-> r.tag, value |-> r.value]

Before(dt, p) == [a |-> a, b |-> b, dt |-> dt, p |-> p]

Init ==
    /\ unit \in Units
    /\ a \in UNION { ShapesAt(c) : c \in Points }
    /\ b \in ShapesAt(ZERO)
    /\ ret = Called("new", Return(undefined))
    /\ pre = Before(Zero, ZERO)
    /\ steps = 0

\* a.setLinearVelocity(v), before the first frame
SetLinearVelocityA ==
    \E v \in VelocitiesA :
        /\ steps = 0
        /\ a' = setLinearVelocity(a, v)
        /\ pre' = [a |-> a', b |-> b, dt |-> Zero, p |-> ZERO]
        /\ ret' = Called("setLinearVelocity", Return(undefined))
        /\ UNCHANGED <<unit, b, steps>>

\* b.setLinearVelocity(v), before the first frame
SetLinearVelocityB ==
    \E v \in VelocitiesB :
        /\ steps = 0
        /\ b' = setLinearVelocity(b, v)
        /\ pre' = [a |-> a, b |-> b', dt |-> Zero, p |-> ZERO]
        /\ ret' = Called("setLinearVelocity", Return(undefined))
        /\ UNCHANGED <<unit, a, steps>>

\* the scene after a.solveCollisions(b, dt) returned or threw r
Returned(r) ==
    IF r.tag = "throw"
    THEN /\ ret' = Called("solveCollisions", r)
         /\ UNCHANGED <<a, b>>
    ELSE /\ ret' = Called("solveCollisions", Return(undefined))
         /\ a' = r.value[1]
         /\ b' = r.value[2]

\* a.solveCollisions(b, dt), while fewer than maxSteps frames have run
Frame(maxSteps) ==
    \E dt \in Dts :
        /\ steps < maxSteps
        /\ solveCollisionsExact(a, b)
        /\ pre' = Before(dt, ZERO)
        /\ Returned(solveCollisions(a, b, dt))
        /\ steps' = steps + 1
        /\ UNCHANGED unit

\* animate: one frame after another
SolveCollisions == Frame(MaxSteps)

\* animate: the first frame
FirstFrame == Frame(1)

\* a.sum(b)
Sum ==
    /\ pre' = Before(Zero, ZERO)
    /\ ret' = Called("sum", sum(a, b))
    /\ UNCHANGED <<unit, a, b, steps>>

\* a.intersects(b)
Intersects ==
    /\ pre' = Before(Zero, ZERO)
    /\ ret' = Called("intersects", intersects(a, b))
    /\ UNCHANGED <<unit, a, b, steps>>

\* a.intersect(b)
Intersect ==
    /\ intersectExact(a, b)
    /\ pre' = Before(Zero, ZERO)
    /\ ret' = Called("intersect", intersect(a, b))
    /\ UNCHANGED <<unit, a, b, steps>>

\* a.closestPoint(p)
ClosestPoint ==
    \E p \in Points :
        /\ closestPointExact(a, p)
        /\ pre' = Before(Zero, p)
        /\ ret' = Called("closestPoint", Return(closestPoint(a, p)))
        /\ UNCHANGED <<unit, a, b, steps>>

\* the frames of two moving shapes
Next == SetLinearVelocityA \/ SetLinearVelocityB \/ SolveCollisions

Spec == Init /\ [][Next]_vars

\* the queries on two moving shapes, before and after their first frame
NextQuery ==
    \/ SetLinearVelocityA
    \/ SetLinearVelocityB
    \/ Sum
    \/ Intersects
    \/ Intersect
    \/ FirstFrame

SpecQuery == Init /\ [][NextQuery]_vars

\* the point queries on the shapes as constructed (closestPoint reads no unit)
InitPoint == Init /\ unit = "macro"

NextPoint == ClosestPoint

SpecPoint == InitPoint /\ [][NextPoint]_vars

\* the largest half-extent and radius given to a new shape
MaxExtent == 4

Extents == 1..MaxExtent

\* the centers given to the shapes of every size
Offsets == { Vec(0, 0), Vec(1, -2) }

\* the shapes of every size: new Circle, new AABB, new RoundRect with any radius
ShapesOfSize(c) ==
    { Circle(c, Int2Num(r)) : r \in Extents }
        \cup { AABB(c, Int2Num(w), Int2Num(h)) : w \in Extents, h \in Extents }
        \cup { RoundRect(c, Int2Num(w), Int2Num(h), Int2Num(r)) :
                   w \in Extents, h \in Extents, r \in Extents }

InitShape ==
    /\ unit = "macro"
    /\ a \in UNION { ShapesOfSize(c) : c \in Offsets }
    /\ b = Circle(ZERO, One)
    /\ ret = Called("new", Return(undefined))
    /\ pre = Before(Zero, ZERO)
    /\ steps = 0

\* a.contains(p), on a shape as constructed
Contains ==
    \E p \in Points :
        /\ ret.op = "new"
        /\ pre' = Before(Zero, p)
        /\ ret' = Called("contains", Return(contains(a, p)))
        /\ UNCHANGED <<unit, a, b, steps>>

\* a.closestPoint(p), on a shape as constructed
NewClosestPoint == ret.op = "new" /\ ClosestPoint

\* one point query on a new shape of any size
NextShape == Contains \/ NewClosestPoint

SpecShape == InitShape /\ [][NextShape]_vars

\* the largest coordinate of a segment's end point
MaxEdge == 1

EdgeCoords == (-1)..MaxEdge

EdgePoints == { Vec(i, j) : i \in EdgeCoords, j \in EdgeCoords }

\* two segments originA-endA and originB-endB, any four points of the grid
InitEdge ==
    /\ unit = "macro"
    /\ a = Circle(ZERO, One)
    /\ b = Circle(ZERO, One)
    /\ ret = Called("new", Return(undefined))
    /\ pre \in { Before(Zero, <<originA, endA, originB, endB>>) :
                    originA \in EdgePoints, endA \in EdgePoints,
                    originB \in EdgePoints, endB \in EdgePoints }
    /\ steps = 0

\* rayCastEdge(originA, endA, originB, endB)
RayCastEdge ==
    /\ ret.op = "new"
    /\ ret' = Called("rayCastEdge",
                     Return(rayCastEdge(pre.p[1], pre.p[2], pre.p[3], pre.p[4])))
    /\ UNCHANGED <<unit, a, b, pre, steps>>

NextEdge == RayCastEdge

SpecEdge == InitEdge /\ [][NextEdge]_vars

(***************************************************************************)
(* The scene at the size the page draws it: the circle of line 576, which  *)
(* the mouse drags by whole pixels (line 604), beside a rounded rectangle  *)
(* of the size of line 578; the velocities are those of lines 588 and 598  *)
(* and the frame time that of line 618.  No root is asked to be rational   *)
(* here: where it is not, Math_sqrt keeps its integer part, so a center or *)
(* a hit time computed from it is the program's up to that rounding, while *)
(* the branch solveCollisions takes is decided on squares, exactly.        *)
(***************************************************************************)
\* the mouse drags the circle by at most MaxDrag steps of 25 pixels per axis
MaxDrag == 3

Drags == { 25 * i : i \in (-MaxDrag)..MaxDrag }

SceneCircle(dx, dy) == Circle(Vec(200 + dx, 200 + dy), Int2Num(50))

SceneRoundRect == RoundRect(Vec(250, 250), Int2Num(50), Int2Num(50), Int2Num(20))

SceneVelocities == { ZERO, Vec(0, 10) }

SceneDt == Frac(33, 100)

InitScene ==
    /\ unit = "macro"
    /\ a \in { SceneCircle(dx, dy) : dx \in Drags, dy \in Drags }
    /\ b = SceneRoundRect
    /\ ret = Called("new", Return(undefined))
    /\ pre = Before(Zero, ZERO)
    /\ steps = 0

\* a.setLinearVelocity(v), before the frame
SceneVelocity ==
    \E v \in SceneVelocities :
        /\ steps = 0
        /\ a' = setLinearVelocity(a, v)
        /\ pre' = [a |-> a', b |-> b, dt |-> Zero, p |-> ZERO]
        /\ ret' = Called("setLinearVelocity", Return(undefined))
        /\ UNCHANGED <<unit, b, steps>>

\* animate: a.solveCollisions(b, 0.33), one frame
SceneFrame ==
    /\ steps = 0
    /\ pre' = Before(SceneDt, ZERO)
    /\ Returned(solveCollisions(a, b, SceneDt))
    /\ steps' = 1
    /\ UNCHANGED unit

NextScene == SceneVelocity \/ SceneFrame

SpecScene == InitScene /\ [][NextScene]_vars

(***************************************************************************)
(* Properties.  The last call is ret.op on the scene pre; the geometry of   *)
(* a shape is stated apart from the code's contains: a circle is the disc   *)
(* of its radius, a box the rectangle of its half-extents, and a rounded    *)
(* rectangle the points within radius of its core rectangle.                *)
(***************************************************************************)
\* the last call was a.solveCollisions(b, dt) and it returned
Solved == ret.op = "solveCollisions" /\ ret.tag = "return"

\* B.sum(A) before the last call, and recomputed now
PreSum == sum(pre.b, pre.a).value

NowSum == sum(b, a).value

\* the hit time and the relative motion of the last call
PreHit == hitTime(pre.a, pre.b)

PreMotion == Vector_sub(pre.a.velocity, pre.b.velocity)

\* the branches of the last solveCollisions
ContainsBranch == Solved /\ contains(PreSum, ZERO)

RayCastBranch == Solved /\ ~contains(PreSum, ZERO)

FiniteHitBranch == RayCastBranch /\ Lt(PreHit, POSITIVE_INFINITY)

\* how far p is from the core rectangle of the rounded rectangle s, per axis
Apart(s, p) ==
    Vector_max(Vector_sub(Vector_abs(Vector_sub(p, s.center)),
                          Vector(Sub(s.hw, s.radius), Sub(s.hh, s.radius))),
               ZERO)

\* p is an interior point of s
StrictlyInside(s, p) ==
    IF s.kind = "Circle" THEN LengthLt(Vector_sub(p, s.center), s.radius)
    ELSE IF s.kind = "RoundRect" THEN LengthLt(Apart(s, p), s.radius)
    ELSE /\ Lt(left(s), p.x) /\ Lt(p.x, right(s))
         /\ Lt(top(s), p.y) /\ Lt(p.y, bottom(s))

\* p is a point of s or of its boundary
Within(s, p) ==
    IF s.kind = "Circle" THEN LengthLe(Vector_sub(p, s.center), s.radius)
    ELSE IF s.kind = "RoundRect" THEN LengthLe(Apart(s, p), s.radius)
    ELSE /\ Le(left(s), p.x) /\ Le(p.x, right(s))
         /\ Le(top(s), p.y) /\ Le(p.y, bottom(s))

OnBoundary(s, p) == Within(s, p) /\ ~StrictlyInside(s, p)

\* the squared distance of p and q
DistanceSq(p, q) == Vector_dot(Vector_sub(p, q), Vector_sub(p, q))

BothRoundRect == pre.a.kind = "RoundRect" /\ pre.b.kind = "RoundRect"

\* C1 as stated: intersects returns a boolean, equal to A.sum(B).contains(origin),
\* for every ordered pair of variants, RoundRect-RoundRect included
C1_EveryPair ==
    ret.op = "intersects" =>
        /\ ret.tag = "return"
        /\ ret.value \in BOOLEAN
        /\ ret.value = contains(sum(pre.a, pre.b).value, ZERO)

\* C1: for every ordered pair of variants but RoundRect-RoundRect, intersects(A, B)
\* returns a boolean, equal to A.sum(B).contains(origin); on RoundRect-RoundRect
\* it throws and returns nothing
C1_SupportedPairs ==
    ret.op = "intersects" =>
        IF BothRoundRect
        THEN ret.tag = "throw"
        ELSE /\ ret.tag = "return"
             /\ ret.value \in BOOLEAN
             /\ ret.value = contains(sum(pre.a, pre.b).value, ZERO)

\* intersects answered true on a circle and a rounded rectangle
C1_Witness ==
    /\ ret.op = "intersects"
    /\ ret.tag = "return"
    /\ ret.value = TRUE
    /\ pre.a.kind = "Circle"
    /\ pre.b.kind = "RoundRect"
    /\ pre.a.center # pre.b.center

\* C2: when the origin is not contained in B.sum(A) before a step, it is not
\* strictly inside the recomputed B.sum(A) after it
C2_NoPenetration ==
    RayCastBranch => ~StrictlyInside(NowSum, ZERO)

\* both centers have advanced by velocity * dt * k
AdvancedBy(k) ==
    /\ a.center = Vector_add(pre.a.center, Vector_mul(pre.a.velocity, Mul(pre.dt, k)))
    /\ b.center = Vector_add(pre.b.center, Vector_mul(pre.b.velocity, Mul(pre.dt, k)))

\* a finite hit time h lies in [0, 1], and k is h when h is finite and 1 otherwise
AdvancedUntil(h) ==
    IF Lt(h, POSITIVE_INFINITY)
    THEN Ge(h, Zero) /\ Le(h, One) /\ AdvancedBy(h)
    ELSE AdvancedBy(One)

\* C3: when A and B do not overlap, both centers advance by velocity * dt * k, with
\* k = h when the hit time h is finite (and then 0 <= h <= 1) and k = 1 otherwise
C3_Advance == RayCastBranch => AdvancedUntil(PreHit)

\* two moving shapes were stopped part of the way through a frame
C3_Witness ==
    /\ FiniteHitBranch
    /\ Gt(PreHit, Zero) /\ Lt(PreHit, One)
    /\ a.center # pre.a.center
    /\ b.center # pre.b.center

\* dot(v, tangent) * tangent, tangent the perpendicular of the normalized motion
Tangential(v, motion) ==
    Vector_mul(Vector_tangent(motion),
               Div(Vector_dot(v, Vector_tangent(motion)), Vector_dot(motion, motion)))

\* C4: after a finite hit each velocity v is dot(v, tangent) * tangent
C4_TangentResponse ==
    FiniteHitBranch =>
        /\ a.velocity = Tangential(pre.a.velocity, PreMotion)
        /\ b.velocity = Tangential(pre.b.velocity, PreMotion)

\* C5: after a finite hit, for any dt > 0, the origin lies on the boundary of the
\* recomputed B.sum(A)
C5_StopAtContact ==
    (FiniteHitBranch /\ Gt(pre.dt, Zero)) => OnBoundary(NowSum, ZERO)

\* C6: when B.sum(A) contains the origin, the step changes A.center alone, to
\* A.center + B.sum(A).closestPoint(origin); B and both velocities stay as they were
C6_Displace ==
    ContainsBranch =>
        /\ a = [pre.a EXCEPT !.center =
                   Vector_add(pre.a.center, closestPoint(PreSum, ZERO))]
        /\ b = pre.b

\* two overlapping moving shapes were displaced
C6_Witness ==
    /\ ContainsBranch
    /\ a.center # pre.a.center
    /\ pre.a.velocity # ZERO
    /\ pre.b.velocity # ZERO

\* C7: intersect(A, B) returns A.sum(B).closestPoint(origin) when A.sum(B) contains
\* the origin and null otherwise; it is null exactly when intersects(A, B) is false;
\* neither intersect nor intersects changes A or B
C7_Intersect ==
    /\ (ret.op = "intersect" /\ ret.tag = "return") =>
           IF contains(sum(pre.a, pre.b).value, ZERO)
           THEN ret.value = closestPoint(sum(pre.a, pre.b).value, ZERO)
           ELSE ret.value = null
    /\ ret.op = "intersect" =>
           ((ret.tag = "return" /\ ret.value = null)
               <=> intersects(pre.a, pre.b) = Return(FALSE))
    /\ ret.op \in {"intersect", "intersects"} => a = pre.a /\ b = pre.b

\* intersect gave the displacement of two overlapping moving shapes
C7_Witness ==
    /\ ret.op = "intersect"
    /\ ret.tag = "return"
    /\ ret.value # null
    /\ ret.value # ZERO
    /\ intersects(pre.a, pre.b) = Return(TRUE)
    /\ pre.a.velocity # ZERO

\* C8: for p strictly outside S, S.closestPoint(p) is a point of the boundary of S,
\* and no boundary point (of the grid) is nearer to p
C8_ClosestOnBoundary ==
    (ret.op = "closestPoint" /\ ~Within(pre.a, pre.p)) =>
        /\ OnBoundary(pre.a, ret.value)
        /\ \A q \in Points :
               OnBoundary(pre.a, q) =>
                   Le(DistanceSq(ret.value, pre.p), DistanceSq(q, pre.p))

\* C9: on two rounded rectangles sum throws an error naming both classes, and
\* intersects, intersect and solveCollisions throw it too and change neither shape
C9_Unsupported ==
    (BothRoundRect /\ ret.op \in {"sum", "intersects", "intersect", "solveCollisions"}) =>
        /\ ret.tag = "throw"
        /\ ret.value = <<"sum is not implemented for ", pre.a.kind, " and ", pre.b.kind>>
        /\ a = pre.a
        /\ b = pre.b

\* a frame of two moving rounded rectangles threw
C9_Witness ==
    /\ BothRoundRect
    /\ ret.op = "solveCollisions"
    /\ ret.tag = "throw"
    /\ pre.a.velocity # ZERO
    /\ pre.b.velocity # ZERO

\* C10: for every pair but RoundRect-RoundRect, A.sum(B) and B.sum(A) are the same
\* variant with the same radius and half-extents, A.sum(B).center is A.center -
\* B.center and B.sum(A).center its negation, both have zero velocity, and A and B
\* are unchanged
C10_SumSymmetric ==
    (ret.op = "sum" /\ ~BothRoundRect) =>
        /\ ret.tag = "return"
        /\ sum(pre.b, pre.a).tag = "return"
        /\ [ret.value EXCEPT !.center = ZERO]
               = [sum(pre.b, pre.a).value EXCEPT !.center = ZERO]
        /\ ret.value.center = Vector_sub(pre.a.center, pre.b.center)
        /\ sum(pre.b, pre.a).value.center
               = Vector(Neg(ret.value.center.x), Neg(ret.value.center.y))
        /\ ret.value.velocity = ZERO
        /\ a = pre.a
        /\ b = pre.b

\* the sum of a moving circle and a moving rounded rectangle
C10_Witness ==
    /\ ret.op = "sum"
    /\ ret.tag = "return"
    /\ pre.a.kind = "Circle"
    /\ pre.b.kind = "RoundRect"
    /\ pre.a.center # pre.b.center
    /\ pre.a.velocity # ZERO
    /\ pre.b.velocity # ZERO

\* C11: a RoundRect contains its own center, whatever its radius and half-extents
C11_ContainsCenter ==
    (ret.op = "contains" /\ pre.a.kind = "RoundRect" /\ pre.p = pre.a.center) =>
        ret.value = TRUE

\* the distance of p, a point of s, to the nearest of the four sides of s
SideDistance(s, p) ==
    Math_min(Sub(s.hw, Math_abs(Sub(p.x, s.center.x))),
             Sub(s.hh, Math_abs(Sub(p.y, s.center.y))))

\* C16: for a RoundRect with radius <= min(hw, hh) and a point p contained in it and
\* not in a corner region, closestPoint(p) lies on the boundary and its distance to
\* p is min(hw - |p.x - center.x|, hh - |p.y - center.y|)
C16_SideProjection ==
    (/\ ret.op = "closestPoint"
     /\ pre.a.kind = "RoundRect"
     /\ Le(pre.a.radius, Math_min(pre.a.hw, pre.a.hh))
     /\ Within(pre.a, pre.p)
     /\ ~RoundRect_inCorner(pre.a, pre.p)) =>
        /\ OnBoundary(pre.a, ret.value)
        /\ DistanceSq(ret.value, pre.p)
               = Mul(SideDistance(pre.a, pre.p), SideDistance(pre.a, pre.p))

\* the distances of p to the sides of the box s, in the order left, right, bottom, top
SideDistances(s, p) ==
    << Math_abs(Sub(p.x, left(s))), Math_abs(Sub(right(s), p.x)),
       Math_abs(Sub(bottom(s), p.y)), Math_abs(Sub(top(s), p.y)) >>

\* the projections of p onto the sides of the box s, in the same order
SideProjections(s, p) ==
    << Vector(left(s), p.y), Vector(right(s), p.y),
       Vector(p.x, bottom(s)), Vector(p.x, top(s)) >>

\* the earliest side, in that order, among those at minimum distance from p
FirstNearestSide(s, p) ==
    CHOOSE i \in 1..4 :
        /\ \A j \in 1..4 : Le(SideDistances(s, p)[i], SideDistances(s, p)[j])
        /\ \A j \in 1..(i - 1) : Lt(SideDistances(s, p)[i], SideDistances(s, p)[j])

\* C17: AABB.closestPoint of a point inside the box is the projection onto the
\* side at minimum distance, the earliest of left, right, bottom, top on a tie
C17_LeftBiased ==
    (ret.op = "closestPoint" /\ pre.a.kind = "AABB" /\ Within(pre.a, pre.p)) =>
        ret.value = SideProjections(pre.a, pre.p)[FirstNearestSide(pre.a, pre.p)]

\* closestPoint has answered for a point strictly inside a box, at the same
\* distance from the left and the right side and nearer to them than to the
\* other two, with the projection onto the left side
C17_Witness ==
    /\ ret.op = "closestPoint"
    /\ pre.a.kind = "AABB"
    /\ StrictlyInside(pre.a, pre.p)
    /\ SideDistances(pre.a, pre.p)[1] = SideDistances(pre.a, pre.p)[2]
    /\ Lt(SideDistances(pre.a, pre.p)[1], SideDistances(pre.a, pre.p)[3])
    /\ Lt(SideDistances(pre.a, pre.p)[1], SideDistances(pre.a, pre.p)[4])
    /\ ret.value = Vector(left(pre.a), pre.p.y)

BothAABB == pre.a.kind = "AABB" /\ pre.b.kind = "AABB"

\* the boxes s and t overlap or touch on both axes
BoxesMeet(s, t) ==
    /\ Le(Math_abs(Sub(s.center.x, t.center.x)), Add(s.hw, t.hw))
    /\ Le(Math_abs(Sub(s.center.y, t.center.y)), Add(s.hh, t.hh))

\* two boxes of half-extents (50, 50) whose centers are 300 apart on the x-axis
FarBoxA == AABB(Vec(0, 0), Int2Num(50), Int2Num(50))

FarBoxB == AABB(Vec(300, 0), Int2Num(50), Int2Num(50))

\* C13: for two AABBs intersects is true exactly when the centers are no further
\* apart than the summed half-extents on both axes, touching included; boxes of
\* half-extents (50, 50) with centers 300 apart give intersects false, intersect null
C13_BoxOverlap ==
    /\ (ret.op = "intersects" /\ BothAABB) =>
           /\ ret.tag = "return"
           /\ ret.value = BoxesMeet(pre.a, pre.b)
    /\ intersects(FarBoxA, FarBoxB) = Return(FALSE)
    /\ intersect(FarBoxA, FarBoxB) = Return(null)

\* intersects has answered true for two boxes that only touch: their centers are
\* exactly the summed half-widths apart on the x-axis
C13_Witness ==
    /\ ret.op = "intersects"
    /\ BothAABB
    /\ Math_abs(Sub(pre.a.center.x, pre.b.center.x)) = Add(pre.a.hw, pre.b.hw)
    /\ ret.value = TRUE

\* the same rayCastEdge call with the two segments swapped
SwappedEdge == rayCastEdge(pre.p[3], pre.p[4], pre.p[1], pre.p[2])

\* the point at fraction t of the segment from origin to end
PointAt(origin, end, t) == Vector_add(origin, Vector_mul(Vector_sub(end, origin), t))

\* C14: rayCastEdge returns +infinity or a fraction in [0, 1]; the call with the
\* segments swapped is finite exactly when this one is, and the two fractions
\* then denote the same point
C14_EdgeSymmetric ==
    ret.op = "rayCastEdge" =>
        /\ ret.value = POSITIVE_INFINITY \/ (Le(Zero, ret.value) /\ Le(ret.value, One))
        /\ IsFinite(ret.value) <=> IsFinite(SwappedEdge)
        /\ IsFinite(ret.value) =>
               PointAt(pre.p[1], pre.p[2], ret.value) = PointAt(pre.p[3], pre.p[4], SwappedEdge)

\* rayCastEdge has found a crossing inside both segments, at a fraction of the
\* first segment that differs from the fraction of the second
C14_Witness ==
    /\ ret.op = "rayCastEdge"
    /\ Lt(Zero, ret.value)
    /\ Lt(ret.value, One)
    /\ IsFinite(SwappedEdge)
    /\ SwappedEdge # ret.value

\* C15: when B.sum(A) contains the origin before a step, the origin is not
\* strictly inside the recomputed B.sum(A) after it
C15_Separated ==
    ContainsBranch => ~StrictlyInside(NowSum, ZERO)

\* every coordinate of both centers is a finite number
FiniteCenters ==
    /\ IsFinite(a.center.x)
    /\ IsFinite(a.center.y)
    /\ IsFinite(b.center.x)
    /\ IsFinite(b.center.y)

\* C18: after any sequence of setLinearVelocity and solveCollisions calls both
\* centers are finite, concentric circles included
C18_FiniteCenters ==
    ret.op \in {"setLinearVelocity", "solveCollisions"} => FiniteCenters

\* the last call was circle.solveCollisions(roundRect, 0.33) with the circle at
\* (200, 200), radius 50, velocity (0, 10), and the rounded rectangle at rest
InScenario ==
    /\ Solved
    /\ pre.a = setLinearVelocity(SceneCircle(0, 0), Vec(0, 10))
    /\ pre.b = SceneRoundRect
    /\ pre.dt = SceneDt

\* how far the last call moved A.center along y
AdvanceY == Sub(a.center.y, pre.a.center.y)

\* C12 as stated: the call takes the ray-cast branch with a finite hit time and
\* circle.center.y advances by an amount in [0, 3.3)
C12_RayCastHit ==
    InScenario =>
        /\ FiniteHitBranch
        /\ Le(Zero, AdvanceY)
        /\ Lt(AdvanceY, Frac(33, 10))

\* C12, amended: the call takes the contains branch, B.sum(A) being the rounded
\* rectangle of center (50, 50), half-extents (100, 100) and radius 70 around
\* the origin; it adds B.sum(A).closestPoint(origin) to circle.center, which
\* moves back along both axes, and leaves the rectangle and the velocities
C12_Displaced ==
    InScenario =>
        /\ PreSum = RoundRect(Vec(50, 50), Int2Num(100), Int2Num(100), Int2Num(70))
        /\ ContainsBranch
        /\ a = [pre.a EXCEPT !.center =
                   Vector_add(pre.a.center, closestPoint(PreSum, ZERO))]
        /\ Lt(a.center.x, pre.a.center.x)
        /\ Lt(AdvanceY, Zero)
        /\ b = pre.b

\* the scenario's call has returned and the circle has moved
C12_Witness ==
    /\ InScenario
    /\ a.center # pre.a.center
    /\ a.velocity = Vec(0, 10)

====
